---- MODULE Spec2Model ----
(***************************************************************************)
(* Model of mcp-scheduler: the task ledger (task_store.py), the trigger    *)
(* synchronizer over the user's crontab (cron_manager.py), the caller      *)
(* facing tools (server.py) and the runner (run_task.py).                  *)
(***************************************************************************)
EXTENDS Integers, Sequences, FiniteSets, TLC

VARIABLES tasks, runs, crontab, next_task, next_run, last, now, runner

vars == <<tasks, runs, crontab, next_task, next_run, last, now, runner>>

(* ------------------------------ bounds --------------------------------- *)

\* number of task ids uuid4 hands out in a behaviour
MaxTasks == 1
\* number of run ids AUTOINCREMENT hands out in a behaviour
MaxRuns == 1

TaskIds == 1..MaxTasks

\* number of task ids the synchronizer is called with on its own
MaxJobIds == 2

JobIds == 1..MaxJobIds

\* number of timestamps datetime.now() hands out to the ledger called on its
\* own: each stamped write there gets a later one
MaxClock == 4

\* the task ids the ledger is called with on its own
LedgerIds == 1..MaxClock

(* ------------------------- trigger expressions ------------------------- *)

\* a trigger expression is the sequence of its space separated fields;
\* Star stands for the field "*"
Star == 0 - 1

E7 == <<0, 7, Star, Star, Star>>
E8 == <<0, 8, Star, Star, Star>>
\* six fields
Bad6 == <<0, 7, Star, Star, Star, Star>>
\* five fields, minute out of range
BadMin == <<60, 7, Star, Star, Star>>

\* the expressions the tools are called with
Exprs == {E7, E8, BadMin}

\* the expressions the synchronizer is called with on its own
SyncExprs == Exprs \cup {Bad6}

NoExpr == <<>>

\* lowest and highest value of the five fields: minute, hour, day of month,
\* month, day of week
FieldLo == <<0, 0, 1, 1, 0>>
FieldHi == <<59, 23, 31, 12, 6>>

\* job.setall(expr) followed by job.is_valid(): five fields, each in its range
is_valid(cron_expression) ==
    /\ Len(cron_expression) = 5
    /\ \A i \in 1..5 :
          \/ cron_expression[i] = Star
          \/ /\ cron_expression[i] >= FieldLo[i]
             /\ cron_expression[i] <= FieldHi[i]

Names == {"A"}

(* ------------------------------ crontab -------------------------------- *)

COMMENT_PREFIX == "claude-scheduler:"

_job_comment(task_id) == <<COMMENT_PREFIX, task_id>>

\* an entry of another owner in the shared crontab
ForeignJob == [comment |-> <<"something-else">>, slices |-> E7, enabled |-> TRUE]

\* cron.find_comment(comment): the jobs whose comment is exactly comment
find_comment(cron, comment) ==
    SelectSeq(cron, LAMBDA job : job.comment = comment)

\* cron.remove_all(comment=comment): the crontab without those jobs
remove_all(cron, comment) ==
    SelectSeq(cron, LAMBDA job : job.comment # comment)

\* cron.new(command, comment) then job.setall(cron_expression)
new_job(comment, cron_expression) ==
    [comment |-> comment, slices |-> cron_expression, enabled |-> TRUE]

\* job.enable(flag) on every job with the comment
set_enabled(cron, comment, flag) ==
    [i \in 1..Len(cron) |->
        IF cron[i].comment = comment
        THEN [cron[i] EXCEPT !.enabled = flag]
        ELSE cron[i]]

\* the result of a synchronizer call: the persisted crontab, the exception
\* raised ("none" when it returned), the returned value and whether
\* cron.write() was called
SyncResult(cron, raised, result) ==
    [crontab |-> cron, raised |-> raised, result |-> result,
     written |-> raised = "none"]

\* a call that returns found and calls cron.write() only if found
WriteIfFound(cron, found) ==
    [SyncResult(cron, "none", found) EXCEPT !.written = found]

\* install_job without the removal of the task's previous entry
install_job_keep_old(cron, task_id, cron_expression, fac) ==
    IF ~fac THEN SyncResult(cron, "OSError", FALSE)
    ELSE IF ~is_valid(cron_expression) THEN SyncResult(cron, "ValueError", FALSE)
    ELSE SyncResult(Append(cron, new_job(_job_comment(task_id), cron_expression)),
                    "none", TRUE)

\* install_job that writes the crontab before it validates the new job
install_job_write_first(cron, task_id, cron_expression, fac) ==
    IF ~fac THEN SyncResult(cron, "OSError", FALSE)
    ELSE IF ~is_valid(cron_expression)
         THEN SyncResult(remove_all(cron, _job_comment(task_id)), "ValueError", FALSE)
    ELSE SyncResult(Append(remove_all(cron, _job_comment(task_id)),
                           new_job(_job_comment(task_id), cron_expression)),
                    "none", TRUE)

\* install_job that keeps the expression of the entry it replaces
install_job_old_expr(cron, task_id, cron_expression, fac) ==
    IF ~fac THEN SyncResult(cron, "OSError", FALSE)
    ELSE IF ~is_valid(cron_expression) THEN SyncResult(cron, "ValueError", FALSE)
    ELSE LET old == find_comment(cron, _job_comment(task_id))
             expr == IF Len(old) > 0 THEN old[1].slices ELSE cron_expression
         IN SyncResult(Append(remove_all(cron, _job_comment(task_id)),
                              new_job(_job_comment(task_id), expr)),
                       "none", TRUE)

\* install_job: read the crontab, drop the task's jobs, add the new job,
\* raise when it is not valid, write the crontab only after that.
\* fac = FALSE: the crontab facility cannot be read or written
install_job(cron, task_id, cron_expression, fac) ==
    IF ~fac THEN SyncResult(cron, "OSError", FALSE)
    ELSE IF ~is_valid(cron_expression) THEN SyncResult(cron, "ValueError", FALSE)
    ELSE SyncResult(Append(remove_all(cron, _job_comment(task_id)),
                           new_job(_job_comment(task_id), cron_expression)),
                    "none", TRUE)

\* remove_job that reports a removal whatever it found
remove_job_always_true(cron, task_id, fac) ==
    IF ~fac THEN SyncResult(cron, "OSError", FALSE)
    ELSE SyncResult(remove_all(cron, _job_comment(task_id)), "none", TRUE)

\* remove_job: drop the task's jobs, write, report whether one was dropped
remove_job(cron, task_id, fac) ==
    IF ~fac THEN SyncResult(cron, "OSError", FALSE)
    ELSE SyncResult(remove_all(cron, _job_comment(task_id)), "none",
                    Len(find_comment(cron, _job_comment(task_id))) > 0)

\* enable_job: enable the task's jobs, write only when one was found
enable_job(cron, task_id, fac) ==
    IF ~fac THEN SyncResult(cron, "OSError", FALSE)
    ELSE WriteIfFound(set_enabled(cron, _job_comment(task_id), TRUE),
                      Len(find_comment(cron, _job_comment(task_id))) > 0)

\* disable_job that disables every job of the crontab
disable_job_all(cron, task_id, fac) ==
    IF ~fac THEN SyncResult(cron, "OSError", FALSE)
    ELSE SyncResult([i \in 1..Len(cron) |-> [cron[i] EXCEPT !.enabled = FALSE]],
                    "none",
                    Len(find_comment(cron, _job_comment(task_id))) > 0)

\* disable_job that takes the task's jobs out of the crontab
disable_job_remove(cron, task_id, fac) ==
    IF ~fac THEN SyncResult(cron, "OSError", FALSE)
    ELSE WriteIfFound(remove_all(cron, _job_comment(task_id)),
                      Len(find_comment(cron, _job_comment(task_id))) > 0)

\* disable_job: disable the task's jobs, write only when one was found
disable_job(cron, task_id, fac) ==
    IF ~fac THEN SyncResult(cron, "OSError", FALSE)
    ELSE WriteIfFound(set_enabled(cron, _job_comment(task_id), FALSE),
                      Len(find_comment(cron, _job_comment(task_id))) > 0)

\* list_jobs: the jobs whose comment starts with the prefix
list_jobs(cron) ==
    SelectSeq(cron, LAMBDA job : job.comment[1] = COMMENT_PREFIX)

(* ------------------------------- ledger -------------------------------- *)

\* values of a keyword argument that was not passed (None)
NoName == ""
NoFlag == 2

\* a delivery_config is a mapping from keys to strings; None, the value of
\* the argument that was not passed, and the empty mapping
NoConfig == [none |-> "None"]
EmptyConfig == [k \in {} |-> ""]

RECURSIVE dump_items(_, _)
\* the items of mapping for the keys K, one after the other
dump_items(mapping, K) ==
    IF K = {} THEN <<>>
    ELSE LET k == CHOOSE x \in K : TRUE
         IN <<<<k, mapping[k]>>>> \o dump_items(mapping, K \ {k})

\* a serializer that writes the first item only
json_dumps_first(mapping) ==
    IF DOMAIN mapping = {} THEN <<>>
    ELSE LET k == CHOOSE x \in DOMAIN mapping : TRUE
         IN <<<<k, mapping[k]>>>>

\* json.dumps(mapping): the text of a JSON object, its items in a row
json_dumps(mapping) == dump_items(mapping, DOMAIN mapping)

\* json.loads(text): the mapping of the items; of two items with one key the
\* later one counts
json_loads(text) ==
    [k \in {text[i][1] : i \in 1..Len(text)} |->
        LET at == CHOOSE i \in 1..Len(text) :
                     /\ text[i][1] = k
                     /\ \A j \in 1..Len(text) : text[j][1] = k => j <= i
        IN text[at][2]]

\* the arguments of create_task
TaskDef(name, prompt, cron_expression, delivery_type, config, model, max_tokens) ==
    [name |-> name, prompt |-> prompt, cron_expression |-> cron_expression,
     delivery_type |-> delivery_type, delivery_config |-> config,
     model |-> model, max_tokens |-> max_tokens]

\* the arguments scheduler_add_task passes for a request that gives a name,
\* a prompt and an expression: the defaults of AddTaskInput for the rest
Definition(name, cron_expression) ==
    TaskDef(name, "P", cron_expression, "file", NoConfig,
            "claude-sonnet-4-20250514", 4096)

\* INSERT INTO tasks: delivery_config is stored as json.dumps(delivery_config
\* or {}), enabled takes the column default 1, created_at and updated_at the
\* same timestamp
create_task(tsk, task_id, definition, stamp) ==
    tsk @@ (task_id :> [name |-> definition.name,
                        prompt |-> definition.prompt,
                        cron_expression |-> definition.cron_expression,
                        delivery_type |-> definition.delivery_type,
                        delivery_config |->
                            json_dumps(IF definition.delivery_config = NoConfig
                                       THEN EmptyConfig
                                       ELSE definition.delivery_config),
                        model |-> definition.model,
                        max_tokens |-> definition.max_tokens,
                        enabled |-> 1,
                        created_at |-> stamp,
                        updated_at |-> stamp])

\* INSERT OR REPLACE: a row with the id is overwritten
insert_or_replace_task(tsk, task_id, definition, stamp) ==
    [tasks |-> create_task([t \in DOMAIN tsk \ {task_id} |-> tsk[t]], task_id,
                           definition, stamp),
     raised |-> "none"]

\* the INSERT of create_task for the id uuid4 gave: id is the PRIMARY KEY, a
\* second row with the id of a stored one is an IntegrityError
insert_task(tsk, task_id, definition, stamp) ==
    IF task_id \in DOMAIN tsk
    THEN [tasks |-> tsk, raised |-> "IntegrityError"]
    ELSE [tasks |-> create_task(tsk, task_id, definition, stamp),
          raised |-> "none"]

\* _row_to_dict: delivery_config parsed back, enabled as a bool
_row_to_dict(row) ==
    [row EXCEPT !.delivery_config = json_loads(@), !.enabled = (@ # 0)]

\* SELECT * FROM tasks WHERE id = ?: the set of rows found (none or one)
get_task(tsk, task_id) ==
    IF task_id \in DOMAIN tsk THEN {tsk[task_id]} ELSE {}

\* the keyword arguments of update_task, NoName / NoExpr / NoFlag when absent
Kwargs(name, cron_expression, enabled, delivery_config) ==
    [name |-> name, cron_expression |-> cron_expression, enabled |-> enabled,
     delivery_config |-> delivery_config]

no_updates(kwargs) ==
    /\ kwargs.name = NoName
    /\ kwargs.cron_expression = NoExpr
    /\ kwargs.enabled = NoFlag
    /\ kwargs.delivery_config = NoConfig

\* update_task that stamps updated_at also when no field is applied
update_task_restamp(tsk, task_id, kwargs, stamp) ==
    IF task_id \notin DOMAIN tsk THEN tsk
    ELSE [tsk EXCEPT ![task_id] =
            [@ EXCEPT
               !.name = IF kwargs.name # NoName THEN kwargs.name ELSE @,
               !.cron_expression = IF kwargs.cron_expression # NoExpr
                                   THEN kwargs.cron_expression ELSE @,
               !.enabled = IF kwargs.enabled # NoFlag THEN kwargs.enabled ELSE @,
               !.delivery_config = IF kwargs.delivery_config # NoConfig
                                   THEN json_dumps(kwargs.delivery_config)
                                   ELSE @,
               !.updated_at = stamp]]

\* UPDATE tasks SET ... WHERE id = ?: no row matches an unknown id
update_task(tsk, task_id, kwargs, stamp) ==
    IF no_updates(kwargs) \/ task_id \notin DOMAIN tsk THEN tsk
    ELSE [tsk EXCEPT ![task_id] =
            [@ EXCEPT
               !.name = IF kwargs.name # NoName THEN kwargs.name ELSE @,
               !.cron_expression = IF kwargs.cron_expression # NoExpr
                                   THEN kwargs.cron_expression ELSE @,
               !.enabled = IF kwargs.enabled # NoFlag THEN kwargs.enabled ELSE @,
               !.delivery_config = IF kwargs.delivery_config # NoConfig
                                   THEN json_dumps(kwargs.delivery_config)
                                   ELSE @,
               !.updated_at = stamp]]

\* the keys update_task applies
allowed == {"name", "cron_expression", "enabled", "delivery_config"}

\* updates = {k: v for k, v in kwargs.items() if k in allowed}, for kwargs
\* given as a function from keys to values
filter_allowed(raw) ==
    Kwargs(IF "name" \in DOMAIN raw \cap allowed THEN raw["name"] ELSE NoName,
           IF "cron_expression" \in DOMAIN raw \cap allowed
           THEN raw["cron_expression"] ELSE NoExpr,
           IF "enabled" \in DOMAIN raw \cap allowed THEN raw["enabled"] ELSE NoFlag,
           IF "delivery_config" \in DOMAIN raw \cap allowed
           THEN raw["delivery_config"] ELSE NoConfig)

RECURSIVE order_by_created_at(_, _, _)
\* the ids of S ordered by created_at, descending or ascending; the model
\* calls it only for rows with different created_at
order_by_created_at(tsk, S, desc) ==
    IF S = {} THEN <<>>
    ELSE LET first == CHOOSE t \in S :
                         \A u \in S : IF desc
                                      THEN tsk[t].created_at >= tsk[u].created_at
                                      ELSE tsk[t].created_at <= tsk[u].created_at
         IN <<first>> \o order_by_created_at(tsk, S \ {first}, desc)

\* list_tasks with ORDER BY created_at ASC
list_tasks_asc(tsk, enabled_only) ==
    order_by_created_at(tsk, {t \in DOMAIN tsk : ~enabled_only \/ tsk[t].enabled = 1},
                        FALSE)

\* SELECT * FROM tasks [WHERE enabled = 1] ORDER BY created_at DESC: the ids
\* of the rows in the order returned
list_tasks(tsk, enabled_only) ==
    order_by_created_at(tsk, {t \in DOMAIN tsk : ~enabled_only \/ tsk[t].enabled = 1},
                        TRUE)

\* delete_task with foreign_keys left off: the runs of the task stay
delete_task_no_cascade(tsk, rns, task_id) ==
    [tasks |-> [i \in DOMAIN tsk \ {task_id} |-> tsk[i]],
     runs |-> rns,
     result |-> task_id \in DOMAIN tsk]

\* delete_task that returns True whether or not a row was deleted
delete_task_always_true(tsk, rns, task_id) ==
    [tasks |-> [i \in DOMAIN tsk \ {task_id} |-> tsk[i]],
     runs |-> SelectSeq(rns, LAMBDA r : r.task_id # task_id),
     result |-> TRUE]

\* DELETE FROM tasks WHERE id = ? with foreign_keys=ON: the runs of the task
\* go with it (ON DELETE CASCADE); result is rowcount > 0
delete_task(tsk, rns, task_id) ==
    [tasks |-> [i \in DOMAIN tsk \ {task_id} |-> tsk[i]],
     runs |-> SelectSeq(rns, LAMBDA r : r.task_id # task_id),
     result |-> task_id \in DOMAIN tsk]

\* the statuses of a finished run
Terminal == {"success", "error"}

\* NULL in finished_at, in error, in output_path and in tokens_used
NoTime == 0 - 1
NoError == ""
NoPath == ""
NoTokens == 0 - 1

\* the INSERT on a connection without PRAGMA foreign_keys=ON
log_run_start_no_fk(tsk, rns, run_id, task_id, stamp) ==
    [runs |-> Append(rns, [id |-> run_id, task_id |-> task_id,
                           status |-> "running", started_at |-> stamp,
                           finished_at |-> NoTime, output_path |-> NoPath,
                           error |-> NoError, tokens_used |-> NoTokens]),
     raised |-> "none", result |-> run_id]

\* INSERT INTO task_runs (task_id, started_at, status) with foreign_keys=ON:
\* the insert raises when no task row has the id, and then no run id is used
log_run_start(tsk, rns, run_id, task_id, stamp) ==
    IF task_id \notin DOMAIN tsk
    THEN [runs |-> rns, raised |-> "IntegrityError", result |-> 0]
    ELSE [runs |-> Append(rns, [id |-> run_id, task_id |-> task_id,
                                status |-> "running", started_at |-> stamp,
                                finished_at |-> NoTime, output_path |-> NoPath,
                                error |-> NoError, tokens_used |-> NoTokens]),
          raised |-> "none", result |-> run_id]

\* the arguments of log_run_finish after the run id
FinishCall(status, output_path, error, tokens_used) ==
    [status |-> status, output_path |-> output_path, error |-> error,
     tokens_used |-> tokens_used]

\* an UPDATE that leaves the columns of a finished run alone
log_run_finish_once(rns, run_id, call, stamp) ==
    [i \in 1..Len(rns) |->
        IF rns[i].id = run_id /\ rns[i].status = "running"
        THEN [rns[i] EXCEPT !.finished_at = stamp, !.status = call.status,
                            !.output_path = call.output_path,
                            !.error = call.error,
                            !.tokens_used = call.tokens_used]
        ELSE rns[i]]

\* an UPDATE that does not set tokens_used
log_run_finish_no_tokens(rns, run_id, call, stamp) ==
    [i \in 1..Len(rns) |->
        IF rns[i].id = run_id
        THEN [rns[i] EXCEPT !.finished_at = stamp, !.status = call.status,
                            !.output_path = call.output_path,
                            !.error = call.error]
        ELSE rns[i]]

\* UPDATE task_runs SET finished_at = ?, status = ?, output_path = ?,
\* error = ?, tokens_used = ? WHERE id = ?
log_run_finish(rns, run_id, call, stamp) ==
    [i \in 1..Len(rns) |->
        IF rns[i].id = run_id
        THEN [rns[i] EXCEPT !.finished_at = stamp, !.status = call.status,
                            !.output_path = call.output_path,
                            !.error = call.error,
                            !.tokens_used = call.tokens_used]
        ELSE rns[i]]

RECURSIVE order_by_started_at(_)
\* ORDER BY started_at DESC: the latest start first, rows of one started_at
\* in the order of their ids
order_by_started_at(rows) ==
    IF rows = <<>> THEN <<>>
    ELSE LET i == CHOOSE k \in 1..Len(rows) :
                     \A j \in 1..Len(rows) :
                         \/ rows[j].started_at < rows[k].started_at
                         \/ rows[j].started_at = rows[k].started_at /\ k <= j
         IN <<rows[i]>> \o order_by_started_at(SubSeq(rows, 1, i - 1)
                                               \o SubSeq(rows, i + 1, Len(rows)))

\* LIMIT ?: the first limit rows, all of them for a negative limit
limit_rows(rows, limit) ==
    IF limit < 0 \/ limit >= Len(rows) THEN rows ELSE SubSeq(rows, 1, limit)

\* the rows of the task in the order they were inserted, limited
get_task_history_unordered(rns, task_id, limit) ==
    limit_rows(SelectSeq(rns, LAMBDA r : r.task_id = task_id), limit)

\* SELECT * FROM task_runs WHERE task_id = ? ORDER BY started_at DESC LIMIT ?
get_task_history(rns, task_id, limit) ==
    limit_rows(order_by_started_at(SelectSeq(rns, LAMBDA r : r.task_id = task_id)),
               limit)

(* ------------------------------- runner -------------------------------- *)

\* outcomes of the backend call and the delivery inside one run: "error" is
\* a backend call that raised
Outcomes == {"ok", "error"}

\* the other failures of a run: the anthropic package cannot be imported,
\* ANTHROPIC_API_KEY is not set, the delivery type has no handler, the
\* delivery handler raised
Failures == {"no_package", "no_credentials", "unknown_delivery", "delivery_error"}

AllOutcomes == Outcomes \cup Failures

\* the text of error_msg for an outcome that raised an Exception
ErrorOf(out) ==
    CASE out = "error" -> "APIError"
      [] out = "no_credentials" -> "RuntimeError"
      [] out = "unknown_delivery" -> "ValueError"
      [] out = "delivery_error" -> "OSError"
      [] OTHER -> NoError

\* what one call leaves behind: the stores and the response or exit
Store(tsk, rns, cron, nrun, stamp) ==
    [tasks |-> tsk, runs |-> rns, crontab |-> cron, next_run |-> nrun,
     now |-> stamp]

\* steps 3 to 5 of run_task for the run run_id: success is logged after the
\* delivery, an Exception is logged as error and exits 1, and sys.exit(1) of
\* call_claude for the missing package is a SystemExit, which the handler
\* for Exception does not catch
finish_run(rns, run_id, out, stamp) ==
    IF out = "ok"
    THEN [runs |-> log_run_finish(rns, run_id,
                                  FinishCall("success", "/out", NoError, 100),
                                  stamp),
          code |-> 0]
    ELSE IF out = "no_package" THEN [runs |-> rns, code |-> 1]
    ELSE [runs |-> log_run_finish(rns, run_id,
                                  FinishCall("error", NoPath, ErrorOf(out), NoTokens),
                                  stamp),
          code |-> 1]

\* a run_task that does not look at the enabled flag of the row
run_task_any(s, task_id, out) ==
    IF get_task(s.tasks, task_id) = {}
    THEN [store |-> s, code |-> 1, called |-> FALSE]
    ELSE LET run_id == s.next_run
             started == log_run_start(s.tasks, s.runs, run_id, task_id, s.now)
             fin == finish_run(started.runs, run_id, out, s.now)
         IN [store |-> [s EXCEPT !.runs = fin.runs, !.next_run = run_id + 1],
             code |-> fin.code, called |-> TRUE]

\* run_task: exit 1 for an unknown task, return for a disabled one, else
\* log the start, call the backend, deliver and log the outcome; called
\* tells whether call_claude was reached
run_task(s, task_id, out) ==
    IF get_task(s.tasks, task_id) = {}
    THEN [store |-> s, code |-> 1, called |-> FALSE]
    ELSE IF s.tasks[task_id].enabled = 0
    THEN [store |-> s, code |-> 0, called |-> FALSE]
    ELSE LET run_id == s.next_run
             started == log_run_start(s.tasks, s.runs, run_id, task_id, s.now)
             fin == finish_run(started.runs, run_id, out, s.now)
         IN [store |-> [s EXCEPT !.runs = fin.runs, !.next_run = run_id + 1],
             code |-> fin.code, called |-> TRUE]

(* ----------------------------- coordinator ----------------------------- *)

\* what the caller gets: kind is "success" or "error" for a returned payload
\* and "raised" for an exception that leaves the tool function; replaced
\* records the expressions of the entries a direct install_job call dropped,
\* result the value a direct call of a ledger function returned
Resp(op, task_id, kind, status, expr) ==
    [op |-> op, task_id |-> task_id, kind |-> kind, status |-> status,
     cron_expression |-> expr, cron_removed |-> FALSE, db_removed |-> FALSE,
     replaced |-> <<>>, result |-> <<>>]

Reply(s, resp) == [store |-> s, resp |-> resp]

NotFound(s, op, task_id) ==
    Reply(s, Resp(op, task_id, "error", "Task not found", NoExpr))

\* scheduler_add_task that deletes the created row when install_job raises
scheduler_add_task_rollback(s, task_id, name, cron_expression, fac) ==
    LET created == create_task(s.tasks, task_id, Definition(name, cron_expression), s.now)
        inst == install_job(s.crontab, task_id, cron_expression, fac)
    IN IF inst.raised # "none"
       THEN Reply(s, Resp("add", task_id, "error", inst.raised, cron_expression))
       ELSE Reply([s EXCEPT !.tasks = created, !.crontab = inst.crontab],
                  Resp("add", task_id, "success", "created", cron_expression))

\* scheduler_add_task: create the row, install the job; any exception
\* becomes an error payload
scheduler_add_task(s, task_id, name, cron_expression, fac) ==
    LET created == create_task(s.tasks, task_id, Definition(name, cron_expression), s.now)
        inst == install_job(s.crontab, task_id, cron_expression, fac)
    IN IF inst.raised # "none"
       THEN Reply([s EXCEPT !.tasks = created],
                  Resp("add", task_id, "error", inst.raised, cron_expression))
       ELSE Reply([s EXCEPT !.tasks = created, !.crontab = inst.crontab],
                  Resp("add", task_id, "success", "created", cron_expression))

\* scheduler_update_task: params holds name and cron_expression, NoName and
\* NoExpr for the fields left out (exclude_none)
scheduler_update_task(s, task_id, params, fac) ==
    IF get_task(s.tasks, task_id) = {} THEN NotFound(s, "update", task_id)
    ELSE IF no_updates(params)
    THEN Reply(s, Resp("update", task_id, "success", "no_changes", NoExpr))
    ELSE LET updated == update_task(s.tasks, task_id, params, s.now)
             inst == IF params.cron_expression # NoExpr
                     THEN install_job(s.crontab, task_id, params.cron_expression, fac)
                     ELSE SyncResult(s.crontab, IF fac THEN "none" ELSE "OSError", TRUE)
         IN IF inst.raised # "none"
            THEN Reply([s EXCEPT !.tasks = updated],
                       Resp("update", task_id, "raised", inst.raised,
                            params.cron_expression))
            ELSE Reply([s EXCEPT !.tasks = updated, !.crontab = inst.crontab],
                       Resp("update", task_id, "success", "updated",
                            params.cron_expression))

\* scheduler_remove_task that deletes the row before it removes the job
scheduler_remove_task_delete_first(s, task_id, fac) ==
    IF get_task(s.tasks, task_id) = {} THEN NotFound(s, "remove", task_id)
    ELSE LET rem == remove_job(s.crontab, task_id, fac)
             del == delete_task(s.tasks, s.runs, task_id)
         IN IF rem.raised # "none"
            THEN Reply([s EXCEPT !.tasks = del.tasks, !.runs = del.runs],
                       Resp("remove", task_id, "raised", rem.raised, NoExpr))
            ELSE Reply([s EXCEPT !.tasks = del.tasks, !.runs = del.runs,
                                 !.crontab = rem.crontab],
                       [Resp("remove", task_id, "success", "removed", NoExpr)
                          EXCEPT !.cron_removed = rem.result,
                                 !.db_removed = del.result])

\* scheduler_remove_task: remove the job, then delete the row
scheduler_remove_task(s, task_id, fac) ==
    IF get_task(s.tasks, task_id) = {} THEN NotFound(s, "remove", task_id)
    ELSE LET rem == remove_job(s.crontab, task_id, fac)
             del == delete_task(s.tasks, s.runs, task_id)
         IN IF rem.raised # "none"
            THEN Reply(s, Resp("remove", task_id, "raised", rem.raised, NoExpr))
            ELSE Reply([s EXCEPT !.tasks = del.tasks, !.runs = del.runs,
                                 !.crontab = rem.crontab],
                       [Resp("remove", task_id, "success", "removed", NoExpr)
                          EXCEPT !.cron_removed = rem.result,
                                 !.db_removed = del.result])

\* scheduler_enable_task without the lookup of the task
scheduler_enable_task_unchecked(s, task_id, fac) ==
    LET updated == update_task(s.tasks, task_id, Kwargs(NoName, NoExpr, 1, NoConfig), s.now)
        en == enable_job(s.crontab, task_id, fac)
    IN IF en.raised # "none"
       THEN Reply([s EXCEPT !.tasks = updated],
                  Resp("enable", task_id, "raised", en.raised, NoExpr))
       ELSE Reply([s EXCEPT !.tasks = updated, !.crontab = en.crontab],
                  Resp("enable", task_id, "success", "enabled", NoExpr))

\* scheduler_enable_task: set the flag in the row, then enable the job
scheduler_enable_task(s, task_id, fac) ==
    IF get_task(s.tasks, task_id) = {} THEN NotFound(s, "enable", task_id)
    ELSE LET updated == update_task(s.tasks, task_id, Kwargs(NoName, NoExpr, 1, NoConfig), s.now)
             en == enable_job(s.crontab, task_id, fac)
         IN IF en.raised # "none"
            THEN Reply([s EXCEPT !.tasks = updated],
                       Resp("enable", task_id, "raised", en.raised, NoExpr))
            ELSE Reply([s EXCEPT !.tasks = updated, !.crontab = en.crontab],
                       Resp("enable", task_id, "success", "enabled", NoExpr))

\* scheduler_disable_task: clear the flag in the row, then disable the job
scheduler_disable_task(s, task_id, fac) ==
    IF get_task(s.tasks, task_id) = {} THEN NotFound(s, "disable", task_id)
    ELSE LET updated == update_task(s.tasks, task_id, Kwargs(NoName, NoExpr, 0, NoConfig), s.now)
             dis == disable_job(s.crontab, task_id, fac)
         IN IF dis.raised # "none"
            THEN Reply([s EXCEPT !.tasks = updated],
                       Resp("disable", task_id, "raised", dis.raised, NoExpr))
            ELSE Reply([s EXCEPT !.tasks = updated, !.crontab = dis.crontab],
                       Resp("disable", task_id, "success", "disabled", NoExpr))

\* scheduler_get_task: the row, its next run (a crontab read) and its history
scheduler_get_task(s, task_id, fac) ==
    IF get_task(s.tasks, task_id) = {} THEN NotFound(s, "get", task_id)
    ELSE IF ~fac THEN Reply(s, Resp("get", task_id, "raised", "OSError", NoExpr))
    ELSE Reply(s, Resp("get", task_id, "success", "task", NoExpr))

\* scheduler_list_tasks: the rows joined with list_jobs (a crontab read)
scheduler_list_tasks(s, fac) ==
    IF ~fac THEN Reply(s, Resp("list", 0, "raised", "OSError", NoExpr))
    ELSE Reply(s, Resp("list", 0, "success", "tasks", NoExpr))

\* scheduler_list_cron: list_jobs (a crontab read)
scheduler_list_cron(s, fac) ==
    IF ~fac THEN Reply(s, Resp("list_cron", 0, "raised", "OSError", NoExpr))
    ELSE Reply(s, Resp("list_cron", 0, "success", "jobs", NoExpr))

\* a history tool that drops the runs it has reported
scheduler_task_history_prune(s, task_id) ==
    IF get_task(s.tasks, task_id) = {} THEN NotFound(s, "history", task_id)
    ELSE Reply([s EXCEPT !.runs = SelectSeq(s.runs, LAMBDA r : r.task_id # task_id)],
               Resp("history", task_id, "success", "runs", NoExpr))

\* scheduler_task_history: get_task, then the runs of the task with
\* get_task_history; both only SELECT
scheduler_task_history(s, task_id) ==
    IF get_task(s.tasks, task_id) = {} THEN NotFound(s, "history", task_id)
    ELSE Reply(s, Resp("history", task_id, "success", "runs", NoExpr))

\* scheduler_run_now: run the runner as a child process and report its exit
scheduler_run_now(s, task_id, out) ==
    IF get_task(s.tasks, task_id) = {} THEN NotFound(s, "run_now", task_id)
    ELSE LET child == run_task(s, task_id, out)
         IN Reply(child.store,
                  Resp("run_now", task_id, "success",
                       IF child.code = 0 THEN "completed" ELSE "failed", NoExpr))

(* ------------------------------- actions ------------------------------- *)

\* no runner process is between two of its steps
Idle == [pc |-> "idle", task_id |-> 0, run_id |-> 0, out |-> "none", code |-> 0]

Current == Store(tasks, runs, crontab, next_run, now)

NoResp == Resp("none", 0, "success", "none", NoExpr)

\* an empty ledger, a crontab that holds only another owner's entry
Init ==
    /\ tasks = <<>>
    /\ runs = <<>>
    /\ crontab = <<ForeignJob>>
    /\ next_task = 1
    /\ next_run = 1
    /\ last = NoResp
    /\ now = 0
    /\ runner = Idle

Apply(reply) ==
    /\ tasks' = reply.store.tasks
    /\ runs' = reply.store.runs
    /\ crontab' = reply.store.crontab
    /\ next_run' = reply.store.next_run
    /\ last' = reply.resp
    /\ UNCHANGED <<now, runner>>

AddTask(name, cron_expression, fac) ==
    /\ next_task <= MaxTasks
    /\ Apply(scheduler_add_task(Current, next_task, name, cron_expression, fac))
    /\ next_task' = next_task + 1

UpdateTask(task_id, params, fac) ==
    /\ Apply(scheduler_update_task(Current, task_id, params, fac))
    /\ UNCHANGED next_task

RemoveTask(task_id, fac) ==
    /\ Apply(scheduler_remove_task(Current, task_id, fac))
    /\ UNCHANGED next_task

EnableTask(task_id, fac) ==
    /\ Apply(scheduler_enable_task(Current, task_id, fac))
    /\ UNCHANGED next_task

DisableTask(task_id, fac) ==
    /\ Apply(scheduler_disable_task(Current, task_id, fac))
    /\ UNCHANGED next_task

GetTask(task_id, fac) ==
    /\ Apply(scheduler_get_task(Current, task_id, fac))
    /\ UNCHANGED next_task

ListTasks(fac) ==
    /\ Apply(scheduler_list_tasks(Current, fac))
    /\ UNCHANGED next_task

ListCron(fac) ==
    /\ Apply(scheduler_list_cron(Current, fac))
    /\ UNCHANGED next_task

TaskHistory(task_id) ==
    /\ Apply(scheduler_task_history(Current, task_id))
    /\ UNCHANGED next_task

RunNow(task_id, out) ==
    /\ next_run <= MaxRuns
    /\ Apply(scheduler_run_now(Current, task_id, out))
    /\ UNCHANGED next_task

\* cron fires an enabled entry of the task: main() of run_task.py
CronFire(task_id, out) ==
    /\ next_run <= MaxRuns
    /\ \E i \in 1..Len(crontab) :
          crontab[i].comment = _job_comment(task_id) /\ crontab[i].enabled
    /\ LET r == run_task(Current, task_id, out)
       IN Apply(Reply(r.store,
                      Resp("run_task", task_id, "exit",
                           IF r.code = 0 THEN "0" ELSE "1", NoExpr)))
    /\ UNCHANGED next_task

\* the requests of scheduler_update_task over the expressions E
UpdateParams(E) ==
    {Kwargs(n, e, NoFlag, NoConfig) : n \in Names \cup {NoName}, e \in E \cup {NoExpr}}

\* the tools that change a task, with trigger expressions from E and the
\* crontab facility working (TRUE) or not (FALSE) as F allows
MutationsOf(E, F) ==
    \/ \E n \in Names, e \in E, fac \in F : AddTask(n, e, fac)
    \/ \E t \in TaskIds, p \in UpdateParams(E), fac \in F : UpdateTask(t, p, fac)
    \/ \E t \in TaskIds, fac \in F : RemoveTask(t, fac)
    \/ \E t \in TaskIds, fac \in F : EnableTask(t, fac)
    \/ \E t \in TaskIds, fac \in F : DisableTask(t, fac)

ReadsOf(F) ==
    \/ \E t \in TaskIds, fac \in F : GetTask(t, fac)
    \/ \E fac \in F : ListTasks(fac)
    \/ \E fac \in F : ListCron(fac)
    \/ \E t \in TaskIds : TaskHistory(t)

Mutations == MutationsOf(Exprs, BOOLEAN)

Reads == ReadsOf(BOOLEAN)

Runner ==
    \/ \E t \in TaskIds, out \in Outcomes : RunNow(t, out)
    \/ \E t \in TaskIds, out \in Outcomes : CronFire(t, out)

\* the tools of server.py called one at a time, and cron firing the runner
Next == Mutations \/ Reads \/ Runner

Spec == Init /\ [][Next]_vars

\* the synchronizer called on its own, for any task id
SyncReply(op, task_id, expr, res) ==
    Reply([Current EXCEPT !.crontab = res.crontab],
          [Resp(op, task_id, IF res.raised = "none" THEN "success" ELSE "raised",
                res.raised, expr)
             EXCEPT !.result = IF res.raised = "none"
                               THEN <<[returned |-> res.result,
                                       written |-> res.written]>>
                               ELSE <<>>])

\* the expressions of the task's entries
SlicesOf(cron, task_id) ==
    LET found == find_comment(cron, _job_comment(task_id))
    IN [i \in 1..Len(found) |-> found[i].slices]

InstallJob(task_id, cron_expression, fac) ==
    /\ LET r == SyncReply("install_job", task_id, cron_expression,
                          install_job(crontab, task_id, cron_expression, fac))
       IN Apply([r EXCEPT !.resp.replaced =
                    IF r.resp.kind = "success" THEN SlicesOf(crontab, task_id)
                    ELSE <<>>])
    /\ UNCHANGED next_task

RemoveJob(task_id, fac) ==
    /\ Apply(SyncReply("remove_job", task_id, NoExpr,
                       remove_job(crontab, task_id, fac)))
    /\ UNCHANGED next_task

EnableJob(task_id, fac) ==
    /\ Apply(SyncReply("enable_job", task_id, NoExpr,
                       enable_job(crontab, task_id, fac)))
    /\ UNCHANGED next_task

DisableJob(task_id, fac) ==
    /\ Apply(SyncReply("disable_job", task_id, NoExpr,
                       disable_job(crontab, task_id, fac)))
    /\ UNCHANGED next_task

\* the synchronizer's functions called for the task ids T with the
\* expressions E
SyncOf(T, E) ==
    \/ \E t \in T, e \in E, fac \in BOOLEAN : InstallJob(t, e, fac)
    \/ \E t \in T, fac \in BOOLEAN : RemoveJob(t, fac)
    \/ \E t \in T, fac \in BOOLEAN : EnableJob(t, fac)
    \/ \E t \in T, fac \in BOOLEAN : DisableJob(t, fac)

SyncNext == SyncOf(JobIds, SyncExprs)

\* one accepted and one rejected expression
WriteExprs == {E7, BadMin}

\* a runner process that has ended: pc is "exited" or "crashed", out tells
\* which way its run went, code is its exit status
Ended(pc, task_id, run_id, out, code) ==
    [pc |-> pc, task_id |-> task_id, run_id |-> run_id, out |-> out, code |-> code]

\* run_task step 1, the lookup of the task: exit 1 when it is not there,
\* return (exit 0) when it is disabled
RunnerLoad(task_id) ==
    /\ runner.pc \in {"idle", "exited", "crashed"}
    /\ next_run <= MaxRuns
    /\ runner' =
          IF get_task(tasks, task_id) = {}
          THEN Ended("exited", task_id, 0, "not_found", 1)
          ELSE IF tasks[task_id].enabled = 0
          THEN Ended("exited", task_id, 0, "skip", 0)
          ELSE [Idle EXCEPT !.pc = "loaded", !.task_id = task_id]
    /\ UNCHANGED <<tasks, runs, crontab, next_task, next_run, last, now>>

\* run_task step 2, log_run_start outside the try block: an exception of the
\* insert ends the process with a traceback and exit status 1
RunnerStart ==
    /\ runner.pc = "loaded"
    /\ LET started == log_run_start(tasks, runs, next_run, runner.task_id, now)
       IN IF started.raised # "none"
          THEN /\ runner' = Ended("exited", runner.task_id, 0, started.raised, 1)
               /\ UNCHANGED <<runs, next_run>>
          ELSE /\ runner' = [runner EXCEPT !.pc = "started",
                                            !.run_id = started.result]
               /\ runs' = started.runs
               /\ next_run' = next_run + 1
    /\ UNCHANGED <<tasks, crontab, next_task, last, now>>

\* run_task steps 3 to 5 for the run it started
RunnerFinish(out) ==
    /\ runner.pc = "started"
    /\ LET fin == finish_run(runs, runner.run_id, out, now)
       IN /\ runs' = fin.runs
          /\ runner' = Ended("exited", runner.task_id, runner.run_id, out, fin.code)
    /\ UNCHANGED <<tasks, crontab, next_task, next_run, last, now>>

\* the process is killed between two steps
RunnerCrash ==
    /\ runner.pc \in {"loaded", "started"}
    /\ runner' = [runner EXCEPT !.pc = "crashed", !.out = "killed"]
    /\ UNCHANGED <<tasks, runs, crontab, next_task, next_run, last, now>>

\* one runner process at a time, step by step
RunnerSteps ==
    \/ \E t \in TaskIds : RunnerLoad(t)
    \/ RunnerStart
    \/ \E out \in AllOutcomes : RunnerFinish(out)
    \/ RunnerCrash

\* the runner's steps interleaved with the tools that change a task, called
\* with an accepted expression while the crontab facility works
RunNext == MutationsOf({E7}, {TRUE}) \/ RunnerSteps

SpecRun == Init /\ [][RunNext]_vars

\* keyword arguments for a direct call of update_task: none, one that is not
\* a column, and one or two columns
RawKwargs ==
    {[k \in {} |-> 0], [bogus |-> 1], [name |-> "B"], [enabled |-> 0],
     [enabled |-> 1], [name |-> "B", bogus |-> 1]}

\* what kind of request raw is
KindOf(raw) ==
    IF DOMAIN raw = {} THEN "empty"
    ELSE IF DOMAIN raw \cap allowed = {} THEN "unrecognized"
    ELSE "fields"

\* the dict a ledger function returned as a sequence: empty for None
RowOf(tsk, task_id) ==
    IF get_task(tsk, task_id) = {} THEN <<>> ELSE <<_row_to_dict(tsk[task_id])>>

\* a direct call of a ledger function returned result or raised
LedgerReply(op, task_id, status, raised, result) ==
    [Resp(op, task_id, IF raised = "none" THEN "success" ELSE "raised",
          status, NoExpr)
       EXCEPT !.result = result]

\* create_task called on its own: uuid4 gives the next id, now() a later time
LedgerCreate(definition) ==
    /\ now < MaxClock
    /\ now' = now + 1
    /\ tasks' = create_task(tasks, next_task, definition, now')
    /\ next_task' = next_task + 1
    /\ last' = LedgerReply("create_task", next_task, "row", "none",
                           RowOf(tasks', next_task))
    /\ UNCHANGED <<runs, crontab, next_run, runner>>

\* create_task called on its own with uuid4 giving any id whatever
LedgerInsert(definition, task_id) ==
    /\ now < MaxClock
    /\ now' = now + 1
    /\ LET ins == insert_task(tasks, task_id, definition, now')
       IN /\ tasks' = ins.tasks
          /\ last' = LedgerReply("create_task", task_id, "row", ins.raised,
                                 IF ins.raised = "none"
                                 THEN RowOf(tasks', task_id) ELSE <<>>)
    /\ UNCHANGED <<runs, crontab, next_task, next_run, runner>>

\* update_task called on its own; time passes when it stamps updated_at
LedgerUpdate(task_id, raw) ==
    /\ no_updates(filter_allowed(raw)) \/ now < MaxClock
    /\ now' = IF no_updates(filter_allowed(raw)) THEN now ELSE now + 1
    /\ tasks' = update_task(tasks, task_id, filter_allowed(raw), now')
    /\ last' = LedgerReply("update_task", task_id, KindOf(raw), "none",
                           RowOf(tasks', task_id))
    /\ UNCHANGED <<runs, crontab, next_task, next_run, runner>>

\* delete_task called on its own
LedgerDelete(task_id) ==
    /\ LET del == delete_task(tasks, runs, task_id)
       IN /\ tasks' = del.tasks
          /\ runs' = del.runs
          /\ last' = LedgerReply("delete_task", task_id, "bool", "none",
                                 <<del.result>>)
    /\ UNCHANGED <<crontab, next_task, next_run, now, runner>>

\* get_task called on its own
LedgerGet(task_id) ==
    /\ last' = LedgerReply("get_task", task_id, "row", "none",
                           RowOf(tasks, task_id))
    /\ UNCHANGED <<tasks, runs, crontab, next_task, next_run, now, runner>>

\* list_tasks called on its own
LedgerList(enabled_only) ==
    /\ last' = LedgerReply("list_tasks", 0,
                           IF enabled_only THEN "enabled_only" ELSE "all",
                           "none", list_tasks(tasks, enabled_only))
    /\ UNCHANGED <<tasks, runs, crontab, next_task, next_run, now, runner>>

\* log_run_start called on its own; the result is the run id as the id of
\* a row, nothing when the insert raised
LedgerRunStart(task_id) ==
    /\ now < MaxClock
    /\ now' = now + 1
    /\ LET started == log_run_start(tasks, runs, next_run, task_id, now')
       IN /\ runs' = started.runs
          /\ next_run' = IF started.raised = "none" THEN next_run + 1 ELSE next_run
          /\ last' = LedgerReply("log_run_start", task_id, "run_id",
                                 started.raised,
                                 IF started.raised = "none"
                                 THEN <<[id |-> started.result]>> ELSE <<>>)
    /\ UNCHANGED <<tasks, crontab, next_task, runner>>

\* calls of log_run_finish: a success with its output and token count, an
\* error with its message
FinishCalls ==
    {FinishCall("success", "/out", NoError, 100),
     FinishCall("error", NoPath, "X", NoTokens)}

\* log_run_finish called on its own for a run id that was handed out; the
\* result is the rows the UPDATE matched as they were before it
LedgerRunFinish(run_id, call) ==
    /\ now < MaxClock
    /\ now' = now + 1
    /\ run_id < next_run
    /\ runs' = log_run_finish(runs, run_id, call, now')
    /\ last' = LedgerReply("log_run_finish", 0, call.status, "none",
                           SelectSeq(runs, LAMBDA r : r.id = run_id))
    /\ UNCHANGED <<tasks, crontab, next_task, next_run, runner>>

\* task_store.py alone
LedgerNext ==
    \/ \E n \in Names : LedgerCreate(Definition(n, E7))
    \/ \E t \in LedgerIds, raw \in RawKwargs : LedgerUpdate(t, raw)
    \/ \E t \in LedgerIds : LedgerDelete(t)
    \/ \E t \in LedgerIds : LedgerGet(t)
    \/ \E e \in BOOLEAN : LedgerList(e)
    \/ \E t \in LedgerIds : LedgerRunStart(t)
    \/ \E r \in LedgerIds, c \in FinishCalls : LedgerRunFinish(r, c)

SpecLedger == Init /\ [][LedgerNext]_vars

\* the ledger together with the update tool called without a field
StoreNext ==
    \/ LedgerNext
    \/ \E t \in LedgerIds, fac \in BOOLEAN :
          UpdateTask(t, Kwargs(NoName, NoExpr, NoFlag, NoConfig), fac)

SpecStore == Init /\ [][StoreNext]_vars

\* task definitions that differ in every argument of create_task; the first
\* leaves the optional arguments to their defaults
Defs ==
    {TaskDef("A", "P", E7, "file", NoConfig, "sonnet", 4096),
     TaskDef("B", "Q", E8, "append", [path |-> "b", filename |-> "f"],
             "opus", 100),
     TaskDef("A", "Q", E7, "stdout", EmptyConfig, "sonnet", 64000)}

\* keyword arguments of update_task that carry a delivery_config
ConfigKwargs ==
    {[delivery_config |-> EmptyConfig],
     [delivery_config |-> [path |-> "a"]],
     [name |-> "B", delivery_config |-> [path |-> "b", filename |-> "f"]]}

\* the task rows of the ledger written and read back
RowsNext ==
    \/ \E d \in Defs, t \in JobIds : LedgerInsert(d, t)
    \/ \E t \in JobIds, raw \in ConfigKwargs : LedgerUpdate(t, raw)
    \/ \E t \in JobIds : LedgerGet(t)
    \/ \E t \in JobIds : LedgerDelete(t)

SpecRows == Init /\ [][RowsNext]_vars

\* scheduler_add_task up to its ledger call: the row is created
add_task_row(s, task_id, name, cron_expression) ==
    Reply([s EXCEPT !.tasks = create_task(s.tasks, task_id,
                                          Definition(name, cron_expression), s.now)],
          Resp("add", task_id, "pending", "create_task", cron_expression))

\* scheduler_add_task from its synchronizer call on: install_job
add_task_job(s, resp, fac) ==
    LET inst == install_job(s.crontab, resp.task_id, resp.cron_expression, fac)
    IN IF inst.raised # "none"
       THEN Reply(s, Resp("add", resp.task_id, "error", inst.raised,
                          resp.cron_expression))
       ELSE Reply([s EXCEPT !.crontab = inst.crontab],
                  Resp("add", resp.task_id, "success", "created",
                       resp.cron_expression))

\* scheduler_update_task up to its ledger call: the lookup, the check for
\* changes and update_task
update_task_row(s, task_id, params) ==
    IF get_task(s.tasks, task_id) = {} THEN NotFound(s, "update", task_id)
    ELSE IF no_updates(params)
    THEN Reply(s, Resp("update", task_id, "success", "no_changes", NoExpr))
    ELSE Reply([s EXCEPT !.tasks = update_task(s.tasks, task_id, params, s.now)],
               Resp("update", task_id, "pending", "update_task",
                    params.cron_expression))

\* scheduler_update_task from its synchronizer call on: install_job when
\* the expression was given, get_next_run
update_task_job(s, resp, fac) ==
    LET inst == IF resp.cron_expression # NoExpr
                THEN install_job(s.crontab, resp.task_id, resp.cron_expression, fac)
                ELSE SyncResult(s.crontab, IF fac THEN "none" ELSE "OSError", TRUE)
    IN IF inst.raised # "none"
       THEN Reply(s, Resp("update", resp.task_id, "raised", inst.raised,
                          resp.cron_expression))
       ELSE Reply([s EXCEPT !.crontab = inst.crontab],
                  Resp("update", resp.task_id, "success", "updated",
                       resp.cron_expression))

\* a first half of scheduler_remove_task that deletes the row and leaves
\* the job to the second half
remove_task_row_first(s, task_id, fac) ==
    IF get_task(s.tasks, task_id) = {} THEN NotFound(s, "remove", task_id)
    ELSE LET del == delete_task(s.tasks, s.runs, task_id)
         IN Reply([s EXCEPT !.tasks = del.tasks, !.runs = del.runs],
                  Resp("remove", task_id, "pending", "delete_task", NoExpr))

\* scheduler_remove_task up to its synchronizer call: the lookup and
\* remove_job
remove_task_job(s, task_id, fac) ==
    IF get_task(s.tasks, task_id) = {} THEN NotFound(s, "remove", task_id)
    ELSE LET rem == remove_job(s.crontab, task_id, fac)
         IN IF rem.raised # "none"
            THEN Reply(s, Resp("remove", task_id, "raised", rem.raised, NoExpr))
            ELSE Reply([s EXCEPT !.crontab = rem.crontab],
                       [Resp("remove", task_id, "pending", "remove_job", NoExpr)
                          EXCEPT !.cron_removed = rem.result])

\* scheduler_remove_task from its ledger call on: delete_task
remove_task_row(s, resp) ==
    LET del == delete_task(s.tasks, s.runs, resp.task_id)
    IN Reply([s EXCEPT !.tasks = del.tasks, !.runs = del.runs],
             [Resp("remove", resp.task_id, "success", "removed", NoExpr)
                EXCEPT !.cron_removed = resp.cron_removed,
                       !.db_removed = del.result])

\* a tool is between its ledger call and its synchronizer call
Busy == last.kind = "pending"

StepAdd(name, cron_expression) ==
    /\ ~Busy
    /\ next_task <= MaxTasks
    /\ Apply(add_task_row(Current, next_task, name, cron_expression))
    /\ next_task' = next_task + 1

StepUpdate(task_id, params) ==
    /\ ~Busy
    /\ Apply(update_task_row(Current, task_id, params))
    /\ UNCHANGED next_task

StepRemove(task_id, fac) ==
    /\ ~Busy
    /\ Apply(remove_task_job(Current, task_id, fac))
    /\ UNCHANGED next_task

\* the second call of the tool that is under way
StepSecond(fac) ==
    /\ Busy
    /\ Apply(CASE last.op = "add" -> add_task_job(Current, last, fac)
              [] last.op = "update" -> update_task_job(Current, last, fac)
              [] OTHER -> remove_task_row(Current, last))
    /\ UNCHANGED next_task

\* the server process dies between the two calls of a tool
StepCrash ==
    /\ Busy
    /\ last' = [last EXCEPT !.kind = "crashed"]
    /\ UNCHANGED <<tasks, runs, crontab, next_task, next_run, now, runner>>

\* enable and disable between the tools in two steps
StepEnable(task_id, fac) == ~Busy /\ EnableTask(task_id, fac)

StepDisable(task_id, fac) == ~Busy /\ DisableTask(task_id, fac)

\* the tools that change a task, one at a time, add, update and remove in
\* their two steps
StepsNext ==
    \/ \E n \in Names, e \in Exprs : StepAdd(n, e)
    \/ \E t \in TaskIds, p \in UpdateParams(Exprs) : StepUpdate(t, p)
    \/ \E t \in TaskIds, fac \in BOOLEAN : StepRemove(t, fac)
    \/ \E fac \in BOOLEAN : StepSecond(fac)
    \/ StepCrash
    \/ \E t \in TaskIds, fac \in BOOLEAN : StepEnable(t, fac)
    \/ \E t \in TaskIds, fac \in BOOLEAN : StepDisable(t, fac)

SpecSteps == Init /\ [][StepsNext]_vars

\* main() of run_task.py started by hand, for any id: run_task
RunDirect(task_id, out) ==
    /\ next_run <= MaxRuns
    /\ LET r == run_task(Current, task_id, out)
       IN Apply(Reply(r.store,
                      Resp("run_direct", task_id, "exit",
                           IF r.code = 0 THEN "0" ELSE "1", NoExpr)))
    /\ UNCHANGED next_task

\* the tools that change a task and the runner, launched by run-now, fired
\* by cron or started by hand
InvokeNext ==
    \/ MutationsOf({E7}, BOOLEAN)
    \/ Runner
    \/ \E t \in TaskIds, out \in Outcomes : RunDirect(t, out)

SpecInvoke == Init /\ [][InvokeNext]_vars

\* the limits get_task_history is called with: scheduler_task_history passes
\* 1 to 100, the default of the function is 20
Limits == {1, 2, 20}

\* get_task_history called on its own
LedgerHistory(task_id, limit) ==
    /\ last' = LedgerReply("get_task_history", task_id, "rows", "none",
                           get_task_history(runs, task_id, limit))
    /\ UNCHANGED <<tasks, runs, crontab, next_task, next_run, now, runner>>

\* the run records of the ledger written and read back
HistoryNext ==
    \/ \E n \in Names : LedgerCreate(Definition(n, E7))
    \/ \E t \in LedgerIds : LedgerDelete(t)
    \/ \E t \in LedgerIds : LedgerRunStart(t)
    \/ \E r \in LedgerIds, c \in FinishCalls : LedgerRunFinish(r, c)
    \/ \E t \in LedgerIds, l \in Limits : LedgerHistory(t, l)

SpecHistory == Init /\ [][HistoryNext]_vars

\* the tools that change a task and the runner, without the read-only tools
WriteNext == MutationsOf(WriteExprs, BOOLEAN) \/ Runner

SpecWrite == Init /\ [][WriteNext]_vars

\* every tool and the runner, with one accepted and one rejected expression
ToolsNext == WriteNext \/ Reads

SpecTools == Init /\ [][ToolsNext]_vars

\* the operation's synchronizer call raised
SyncFailed(resp) == resp.status \in {"ValueError", "OSError"}

ValidExprs == {e \in Exprs : is_valid(e)}

\* the tools called one at a time while no synchronizer call fails: every
\* expression is accepted and the crontab facility works
CleanNext == MutationsOf(ValidExprs, {TRUE}) \/ ReadsOf({TRUE}) \/ Runner

SpecClean == Init /\ [][CleanNext]_vars

\* the tools called one at a time while the crontab facility works: a
\* synchronizer call fails only for a rejected expression
UpNext == MutationsOf(Exprs, {TRUE}) \/ ReadsOf({TRUE}) \/ Runner

SpecUp == Init /\ [][UpNext]_vars

\* cron_manager.py alone
SpecSync == Init /\ [][SyncNext]_vars

\* the tools that change a task together with direct synchronizer calls for
\* the same task ids
AllNext == Mutations \/ SyncOf(TaskIds, Exprs)

SpecAll == Init /\ [][AllNext]_vars

(* ------------------------------- claims -------------------------------- *)

EntriesOf(cron, task_id) == find_comment(cron, _job_comment(task_id))

ToolOps == {"add", "update", "remove", "enable", "disable", "get", "list",
            "list_cron", "history", "run_now"}

\* C1: an add or update request whose trigger expression is not a valid
\* five-field expression is rejected and changes neither the ledger nor the
\* crontab
C1_InvalidExpressionChangesNothing ==
    [][(/\ last'.op \in {"add", "update"}
        /\ last'.cron_expression # NoExpr
        /\ ~is_valid(last'.cron_expression))
       => (/\ last'.kind # "success"
           /\ tasks' = tasks
           /\ crontab' = crontab)]_vars

\* C2: the crontab never holds two entries tagged with the same task id
C2_AtMostOneEntryPerTask ==
    \A t \in TaskIds \cup JobIds : Len(EntriesOf(crontab, t)) <= 1

\* an entry was installed over an entry of the same task
C2_Witness ==
    /\ last.op = "install_job"
    /\ last.kind = "success"
    /\ Len(last.replaced) = 1
    /\ Len(EntriesOf(crontab, last.task_id)) = 1
    /\ last.task_id \in DOMAIN tasks

\* C3: install_job for a task that has an entry with another expression
\* leaves exactly one entry for the task, enabled, with the new expression
C3_SecondInstallWins ==
    [][\A t \in JobIds :
          (/\ last'.op = "install_job"
           /\ last'.task_id = t
           /\ last'.kind = "success"
           /\ Len(EntriesOf(crontab, t)) = 1
           /\ EntriesOf(crontab, t)[1].slices # last'.cron_expression)
          => EntriesOf(crontab', t)
                = <<new_job(_job_comment(t), last'.cron_expression)>>]_vars

\* the second install, E8 over E7, has returned
C3_Witness ==
    /\ last.op = "install_job"
    /\ last.kind = "success"
    /\ last.replaced = <<E7>>
    /\ last.cron_expression = E8
    /\ SlicesOf(crontab, last.task_id) = <<E8>>

\* C4: install_job that raises for a rejected expression leaves the crontab
\* as it was, the task's previous entry included
C4_FailedInstallKeepsCrontab ==
    [][(last'.op = "install_job" /\ last'.status = "ValueError")
       => crontab' = crontab]_vars

\* a rejected install over a disabled entry: the entry is still there
C4_Witness ==
    /\ last.op = "install_job"
    /\ last.status = "ValueError"
    /\ Len(EntriesOf(crontab, last.task_id)) = 1
    /\ ~EntriesOf(crontab, last.task_id)[1].enabled
    /\ EntriesOf(crontab, last.task_id)[1].slices = E8

\* C5: after any sequence of operations in which no synchronizer call failed
\* the ledger's enabled flag and the entry's active flag agree for every task
\* that has an entry
C5_EnabledFlagMirrored ==
    \A t \in DOMAIN tasks :
       \A i \in 1..Len(EntriesOf(crontab, t)) :
          EntriesOf(crontab, t)[i].enabled = (tasks[t].enabled = 1)

\* C6: after an operation that returned a success payload every entry holds
\* the cron_expression the ledger stores for its task
C6_EntryMatchesLedgerExpression ==
    (last.op \in ToolOps /\ last.kind = "success")
    => \A t \in DOMAIN tasks :
          \A i \in 1..Len(EntriesOf(crontab, t)) :
             EntriesOf(crontab, t)[i].slices = tasks[t].cron_expression

\* C7: when install_job raises inside scheduler_add_task the created row
\* stays in the ledger without an entry and the caller gets an error payload
C7_FailedInstallKeepsRow ==
    (last.op = "add" /\ SyncFailed(last))
    => /\ last.kind = "error"
       /\ get_task(tasks, last.task_id) # {}
       /\ tasks[last.task_id].cron_expression = last.cron_expression
       /\ EntriesOf(crontab, last.task_id) = <<>>

\* add returned an error payload for a rejected expression; the row is there
C7_Witness ==
    /\ last.op = "add"
    /\ last.status = "ValueError"
    /\ last.kind = "error"
    /\ last.task_id \in DOMAIN tasks
    /\ EntriesOf(crontab, last.task_id) = <<>>

\* C8: every tool returns a success payload or an error payload
C8_NoExceptionCrossesBoundary ==
    last.op \in ToolOps => last.kind \in {"success", "error"}

\* the lifecycle state of a task: "other" is none of the three named states
TaskState(tsk, cron, t) ==
    IF t \notin DOMAIN tsk
    THEN IF EntriesOf(cron, t) = <<>> THEN "nonexistent" ELSE "other"
    ELSE IF Len(EntriesOf(cron, t)) # 1 THEN "other"
    ELSE IF tsk[t].enabled = 1 /\ EntriesOf(cron, t)[1].enabled THEN "active"
    ELSE IF tsk[t].enabled = 0 /\ ~EntriesOf(cron, t)[1].enabled THEN "suspended"
    ELSE "other"

LifecycleEdges ==
    {<<"nonexistent", "active">>, <<"active", "suspended">>,
     <<"suspended", "active">>, <<"active", "nonexistent">>,
     <<"suspended", "nonexistent">>}

\* C9: a task moves only along nonexistent -> active <-> suspended ->
\* nonexistent; add yields active, disable suspended, enable active, remove
\* nonexistent, and a removed task never exists again
C9_TaskLifecycle ==
    [][\A t \in TaskIds :
          LET a == TaskState(tasks, crontab, t)
              b == TaskState(tasks', crontab', t)
              acted == last'.task_id = t /\ last'.kind = "success"
          IN /\ a # "other" =>
                  (a = b \/ <<a, b>> \in LifecycleEdges)
             /\ (last'.op = "add" /\ last'.task_id = t) => b = "active"
             /\ (last'.op = "disable" /\ acted) => b = "suspended"
             /\ (last'.op = "enable" /\ acted) => b = "active"
             /\ (last'.op = "remove" /\ acted) => b = "nonexistent"
             /\ (t < next_task /\ t \notin DOMAIN tasks) => t \notin DOMAIN tasks'
      ]_vars

\* C10: scheduler_remove_task on an existing task removes the job before it
\* deletes the row (a raising remove_job leaves the row), and when it returns
\* the task has no entry, no row and no runs, and the payload reports for
\* each side whether something was removed
C10_RemoveCronThenLedger ==
    [][\A t \in DOMAIN tasks :
          (last'.op = "remove" /\ last'.task_id = t)
          => IF last'.kind = "success"
             THEN /\ EntriesOf(crontab', t) = <<>>
                  /\ get_task(tasks', t) = {}
                  /\ get_task_history(runs', t, 20) = <<>>
                  /\ last'.cron_removed = (EntriesOf(crontab, t) # <<>>)
                  /\ last'.db_removed
             ELSE /\ last'.kind = "raised"
                  /\ tasks' = tasks
                  /\ runs' = runs
                  /\ crontab' = crontab]_vars

\* remove returned after it removed an entry and a row
C10_Witness ==
    /\ last.op = "remove"
    /\ last.kind = "success"
    /\ last.cron_removed
    /\ last.db_removed
    /\ last.task_id \notin DOMAIN tasks
    /\ next_run > 1
    /\ runs = <<>>

\* the tools that take a task id
IdOps == {"get", "update", "remove", "enable", "disable", "run_now", "history"}

\* C11: get, update, remove, enable, disable, run_now and history called with
\* a task id that is not in the ledger return the not-found error payload and
\* leave the task rows, the run records and the crontab as they were; no run
\* id is used, so no runner ran
C11_UnknownIdNotFound ==
    [][\A t \in TaskIds :
          (last'.op \in IdOps /\ last'.task_id = t /\ t \notin DOMAIN tasks)
          => /\ last'.kind = "error"
             /\ last'.status = "Task not found"
             /\ tasks' = tasks
             /\ runs' = runs
             /\ crontab' = crontab
             /\ next_run' = next_run]_vars

\* run_now was refused for a task that was removed; the other owner's entry
\* is still there
C11_Witness ==
    /\ last.op = "run_now"
    /\ last.kind = "error"
    /\ last.status = "Task not found"
    /\ last.task_id < next_task
    /\ last.task_id \notin DOMAIN tasks
    /\ crontab = <<ForeignJob>>

\* the run records with the id run_id (none or one)
RunsWithId(rns, run_id) == {rns[i] : i \in {j \in 1..Len(rns) : rns[j].id = run_id}}

\* C12: a runner invocation that fails after it created its run record
\* (backend call failed, package or credentials missing, unknown delivery
\* type, delivery failed) exits non-zero and leaves that run with status
\* error and a non-empty error description, never in running
C12_RunnerFailureIsLogged ==
    [][(/\ runner.pc = "started"
        /\ runner'.pc = "exited"
        /\ runner'.out \in AllOutcomes \ {"ok"})
       => /\ runner'.code # 0
          /\ \A r \in RunsWithId(runs', runner.run_id) :
                r.status = "error" /\ r.error # NoError]_vars

\* C13: a run record goes from running to a terminal status at most once and
\* never leaves a terminal status; a runner invocation that started a run
\* and did not crash has finalized it when it exits, in one step from
\* running; a run no live runner owns stays as it is
C13_RunFinalizedOnce ==
    [][/\ \A r \in {runs[i] : i \in 1..Len(runs)} :
             \A q \in RunsWithId(runs', r.id) :
                /\ r.status \in Terminal => q = r
                /\ ~(runner.pc = "started" /\ runner.run_id = r.id) => q = r
       /\ (runner.pc = "started" /\ runner'.pc = "exited")
             => \A q \in RunsWithId(runs', runner.run_id) :
                   /\ q.status \in Terminal
                   /\ \A r \in RunsWithId(runs, runner.run_id) :
                         r.status = "running"]_vars

\* C14: log_run_start called by a runner that found its task inserts the run
\* record and returns its id, also when the task was removed after the lookup
C14_StartRunAfterDelete ==
    [][runner.pc = "loaded" /\ runner'.pc \notin {"loaded", "crashed"}
       => /\ runner'.pc = "started"
          /\ runner'.run_id = next_run
          /\ next_run' = next_run + 1
          /\ \E r \in RunsWithId(runs', next_run) :
                r.task_id = runner.task_id /\ r.status = "running"]_vars

SyncOps == {"install_job", "remove_job", "enable_job", "disable_job"}

\* the entries that are not tagged for the task, in crontab order
OthersOf(cron, task_id) ==
    SelectSeq(cron, LAMBDA job : job.comment # _job_comment(task_id))

\* the entries tagged for some task id
Tagged(cron) ==
    SelectSeq(cron, LAMBDA job : \E t \in JobIds : job.comment = _job_comment(t))

\* C15: install_job, remove_job, enable_job and disable_job called for a
\* task leave every entry that is not tagged for that task as it was (other
\* tasks' entries and other owners' entries), and list_jobs returns exactly
\* the tagged entries
C15_OnlyOwnEntriesTouched ==
    [][last'.op \in SyncOps
       => /\ OthersOf(crontab', last'.task_id) = OthersOf(crontab, last'.task_id)
          /\ list_jobs(crontab') = Tagged(crontab')
          /\ \A i \in 1..Len(list_jobs(crontab')) :
                list_jobs(crontab')[i] # ForeignJob]_vars

\* a task's entry was disabled next to an enabled entry of another task and
\* the other owner's enabled entry
C15_Witness ==
    /\ last.op = "disable_job"
    /\ last.kind = "success"
    /\ Len(crontab) = 3
    /\ Len(list_jobs(crontab)) = 2
    /\ \A i \in 1..Len(crontab) :
          crontab[i].enabled = (crontab[i].comment # _job_comment(last.task_id))

\* C16: delete_task(id) removes the row of id and every run record of id,
\* keeps every other row and every other run record as it was, and leaves
\* the history of id empty
C16_DeleteCascadesOnlyOwnRuns ==
    [][last'.op = "delete_task"
       => LET t == last'.task_id
          IN /\ t \notin DOMAIN tasks'
             /\ DOMAIN tasks' = DOMAIN tasks \ {t}
             /\ \A u \in DOMAIN tasks' : tasks'[u] = tasks[u]
             /\ runs' = SelectSeq(runs, LAMBDA r : r.task_id # t)
             /\ \A i \in 1..Len(runs') : runs'[i].task_id # t
             /\ get_task_history(runs', t, 20) = <<>>]_vars

\* a task that had a run was deleted; another task and its run are left
C16_Witness ==
    /\ last.op = "delete_task"
    /\ last.result = <<TRUE>>
    /\ Len(runs) = 1
    /\ next_run = 3
    /\ runs[1].task_id \in DOMAIN tasks

\* C17: after delete_task(id) get_task(id) finds nothing; delete_task returns
\* True exactly when a row with the id existed, and for an absent id it
\* returns False, raises nothing and changes nothing
C17_DeleteThenGetAbsent ==
    [][/\ last'.op = "delete_task"
          => LET t == last'.task_id
             IN /\ last'.kind = "success"
                /\ last'.result = <<t \in DOMAIN tasks>>
                /\ get_task(tasks', t) = {}
                /\ t \notin DOMAIN tasks => (tasks' = tasks /\ runs' = runs)
       /\ (/\ last.op = "delete_task"
           /\ last'.op = "get_task"
           /\ last'.task_id = last.task_id)
          => last'.result = <<>>]_vars

\* the second delete of a task returned False next to a row that stayed
C17_Witness ==
    /\ last.op = "delete_task"
    /\ last.result = <<FALSE>>
    /\ last.task_id < next_task
    /\ DOMAIN tasks # {}

\* C18: update_task called without a field, or with unrecognized fields only,
\* changes nothing in the ledger and returns the row as it was, updated_at
\* included; scheduler_update_task without a field changes neither the
\* ledger nor the crontab
C18_EmptyUpdateChangesNothing ==
    [][/\ (last'.op = "update_task" /\ last'.status \in {"empty", "unrecognized"})
          => /\ tasks' = tasks
             /\ runs' = runs
             /\ last'.kind = "success"
             /\ last'.result = RowOf(tasks, last'.task_id)
       /\ last'.op = "update"
          => /\ last'.status \in {"no_changes", "Task not found"}
             /\ tasks' = tasks
             /\ runs' = runs
             /\ crontab' = crontab]_vars

\* a row that was updated some time ago came back from an update with an
\* unrecognized field, with the old updated_at
C18_Witness ==
    /\ last.op = "update_task"
    /\ last.status = "unrecognized"
    /\ Len(last.result) = 1
    /\ last.result[1].updated_at > last.result[1].created_at
    /\ last.result[1].updated_at < now

\* C19: update_task called with recognized fields for an id that is not in
\* the ledger fails with a not-found error and creates no row
C19_UpdateUnknownIdFails ==
    [][(/\ last'.op = "update_task"
        /\ last'.status = "fields"
        /\ last'.task_id \notin DOMAIN tasks)
       => /\ last'.kind = "raised"
          /\ tasks' = tasks]_vars

\* C20: list_tasks(enabled_only=True) returns exactly the enabled tasks and
\* list_tasks(enabled_only=False) all tasks, each once, the task created
\* later before the task created earlier
C20_ListNewestFirst ==
    [][last'.op = "list_tasks"
       => LET res == last'.result
              want == {t \in DOMAIN tasks :
                          last'.status = "enabled_only" => tasks[t].enabled = 1}
          IN /\ {res[i] : i \in 1..Len(res)} = want
             /\ Len(res) = Cardinality(want)
             /\ \A i, j \in 1..Len(res) : i < j => res[i] > res[j]]_vars

\* two of three tasks were listed as enabled, the newer one first
C20_Witness ==
    /\ last.op = "list_tasks"
    /\ last.status = "enabled_only"
    /\ Len(last.result) = 2
    /\ last.result[1] > last.result[2]
    /\ Cardinality(DOMAIN tasks) = 3

\* C21: a delivery configuration mapping given to create_task or to
\* update_task of a stored task is what the get_task that follows returns as
\* delivery_config: a mapping with the same keys and the same values
C21_ConfigRoundTrip ==
    [][/\ \A d \in Defs :
             /\ d.delivery_config # NoConfig
             /\ last'.op = "create_task"
             /\ LedgerInsert(d, last'.task_id)
             /\ last'.kind = "success"
             => /\ Len(last'.result) = 1
                /\ last'.result[1].delivery_config = d.delivery_config
                /\ RowOf(tasks', last'.task_id) = last'.result
       /\ \A t \in DOMAIN tasks, raw \in ConfigKwargs :
             last'.op = "update_task" /\ LedgerUpdate(t, raw)
             => /\ Len(last'.result) = 1
                /\ last'.result[1].delivery_config = raw.delivery_config
                /\ RowOf(tasks', t) = last'.result]_vars

\* a task created with one configuration was updated with a two-key one and
\* the two keys came back
C21_Witness ==
    /\ last.op = "update_task"
    /\ Len(last.result) = 1
    /\ DOMAIN last.result[1].delivery_config = {"path", "filename"}
    /\ last.result[1].delivery_config.path = "b"
    /\ last.result[1].created_at < last.result[1].updated_at

\* C27: create_task with a valid definition, then get_task of the returned
\* id: the task has every supplied field of the definition, enabled is true,
\* the id is the id of no task that was in the ledger, and created_at is
\* updated_at
C27_CreateThenGet ==
    [][\A d \in Defs :
          /\ last'.op = "create_task"
          /\ LedgerInsert(d, last'.task_id)
          /\ last'.kind = "success"
          => LET got == RowOf(tasks', last'.task_id)
             IN /\ Len(got) = 1
                /\ got = last'.result
                /\ got[1].name = d.name
                /\ got[1].prompt = d.prompt
                /\ got[1].cron_expression = d.cron_expression
                /\ got[1].delivery_type = d.delivery_type
                /\ d.delivery_config # NoConfig
                   => got[1].delivery_config = d.delivery_config
                /\ got[1].model = d.model
                /\ got[1].max_tokens = d.max_tokens
                /\ got[1].enabled = TRUE
                /\ got[1].created_at = got[1].updated_at
                /\ last'.task_id \notin DOMAIN tasks
                /\ \A t \in DOMAIN tasks : tasks'[t] = tasks[t]]_vars

\* a second task was created beside a stored one, with arguments that are not
\* the defaults
C27_Witness ==
    /\ last.op = "create_task"
    /\ last.kind = "success"
    /\ Cardinality(DOMAIN tasks) = 2
    /\ last.result[1].model = "opus"
    /\ last.result[1].max_tokens = 100
    /\ last.result[1].enabled

\* the entries of the history of a task, with the default limit, that are
\* the entries of one run
HistoryOf(rns, task_id, run_id) ==
    SelectSeq(get_task_history(rns, task_id, 20), LAMBDA r : r.id = run_id)

\* C22: after log_run_start the history of the task has exactly one entry
\* of the run, with status running and no finished_at; log_run_finish of
\* that run with success and a token count leaves exactly one entry, with
\* status success and that count, and with error and a message exactly one
\* entry with status error and a non-empty error
C22_StartFinishHistory ==
    [][/\ \A t \in LedgerIds :
             /\ last'.op = "log_run_start"
             /\ LedgerRunStart(t)
             /\ last'.kind = "success"
             => LET h == HistoryOf(runs', t, last'.result[1].id)
                IN /\ Len(h) = 1
                   /\ h[1].status = "running"
                   /\ h[1].finished_at = NoTime
       /\ \A r \in LedgerIds, c \in FinishCalls :
             /\ last'.op = "log_run_finish"
             /\ LedgerRunFinish(r, c)
             /\ \E i \in 1..Len(runs) : runs[i].id = r /\ runs[i].status = "running"
             => LET h == HistoryOf(runs', last'.result[1].task_id, r)
                IN /\ Len(h) = 1
                   /\ h[1].status = c.status
                   /\ h[1].finished_at # NoTime
                   /\ c.status = "success" => h[1].tokens_used = c.tokens_used
                   /\ c.status = "error" => h[1].error = c.error /\ h[1].error # NoError
      ]_vars

\* a running run was finished with success and 100 tokens
C22_Witness ==
    /\ last.op = "log_run_finish"
    /\ last.status = "success"
    /\ Len(last.result) = 1
    /\ last.result[1].status = "running"
    /\ LET h == HistoryOf(runs, last.result[1].task_id, last.result[1].id)
       IN Len(h) = 1 /\ h[1].tokens_used = 100 /\ h[1].status = "success"

\* C23: get_task_history(task_id, limit) returns run records of task_id
\* only, each at most once, the later started before the earlier started,
\* never more than limit of them, and the limit latest started ones when the
\* task has more
C23_HistoryOrderedAndLimited ==
    [][\A t \in LedgerIds, l \in Limits :
          last'.op = "get_task_history" /\ LedgerHistory(t, l)
          => LET res == last'.result
                 owned == {i \in 1..Len(runs) : runs[i].task_id = t}
             IN /\ \A i \in 1..Len(res) :
                      /\ res[i].task_id = t
                      /\ \E k \in owned : runs[k] = res[i]
                /\ \A i, j \in 1..Len(res) :
                      /\ i < j => res[i].started_at >= res[j].started_at
                      /\ i # j => res[i].id # res[j].id
                /\ Len(res) <= l
                /\ Len(res) = IF Cardinality(owned) < l
                              THEN Cardinality(owned) ELSE l
                /\ \A k \in owned :
                      (\A i \in 1..Len(res) : res[i].id # runs[k].id)
                      => \A i \in 1..Len(res) :
                            runs[k].started_at <= res[i].started_at]_vars

\* a task with three runs was asked for two: the two latest came back, the
\* later one first
C23_Witness ==
    /\ last.op = "get_task_history"
    /\ Len(last.result) = 2
    /\ last.result[1].started_at > last.result[2].started_at
    /\ Cardinality({i \in 1..Len(runs) : runs[i].task_id = last.task_id}) = 3
    /\ \A i \in 1..Len(runs) : runs[i].started_at <= last.result[1].started_at

\* C28: log_run_finish of a run that is finished already returns like the
\* first call, and status, finished_at, output_path, error and tokens_used
\* of the record are those of this call; id, task_id and started_at of the
\* record and every other record are left as they were by any call
C28_FinishTwiceLastWins ==
    [][\A r \in LedgerIds, c \in FinishCalls :
          last'.op = "log_run_finish" /\ LedgerRunFinish(r, c)
          => /\ last'.kind = "success"
             /\ Len(runs') = Len(runs)
             /\ \A i \in 1..Len(runs) :
                   IF runs[i].id = r
                   THEN /\ runs'[i].status = c.status
                        /\ runs'[i].finished_at = now'
                        /\ runs'[i].output_path = c.output_path
                        /\ runs'[i].error = c.error
                        /\ runs'[i].tokens_used = c.tokens_used
                        /\ runs'[i].id = runs[i].id
                        /\ runs'[i].task_id = runs[i].task_id
                        /\ runs'[i].started_at = runs[i].started_at
                   ELSE runs'[i] = runs[i]]_vars

\* a run finished with success was finished again with error: the record
\* shows the error, no output, no tokens and the later time
C28_Witness ==
    /\ last.op = "log_run_finish"
    /\ last.status = "error"
    /\ Len(last.result) = 1
    /\ last.result[1].status = "success"
    /\ \E i \in 1..Len(runs) :
          /\ runs[i].id = last.result[1].id
          /\ runs[i].status = "error"
          /\ runs[i].error = "X"
          /\ runs[i].output_path = NoPath
          /\ runs[i].tokens_used = NoTokens
          /\ runs[i].finished_at > last.result[1].finished_at

\* the managed entries of a task as list_jobs shows them
ListedOf(cron, task_id) ==
    SelectSeq(list_jobs(cron), LAMBDA job : job.comment = _job_comment(task_id))

\* C24: disable_job leaves the task's entry in the crontab and in list_jobs,
\* not enabled and with its expression, enable_job makes it enabled again,
\* each returns True exactly when the task has an entry, and when it has
\* none the crontab is not written and stays as it is
C24_EnableDisableToggle ==
    [][last'.op \in {"enable_job", "disable_job"} /\ last'.kind = "success"
       => LET t == last'.task_id
              found == Len(find_comment(crontab, _job_comment(t))) > 0
          IN /\ last'.result[1].returned = found
             /\ last'.result[1].written = found
             /\ ~found => crontab' = crontab
             /\ Len(crontab') = Len(crontab)
             /\ Len(ListedOf(crontab', t)) = Len(ListedOf(crontab, t))
             /\ found => Len(ListedOf(crontab', t)) > 0
             /\ \A i \in 1..Len(crontab) :
                   /\ crontab'[i].comment = crontab[i].comment
                   /\ crontab'[i].slices = crontab[i].slices
                   /\ crontab'[i].enabled =
                         IF crontab[i].comment = _job_comment(t)
                         THEN last'.op = "enable_job"
                         ELSE crontab[i].enabled]_vars

\* an entry with the expression E8 was disabled: it is still listed, not
\* enabled, with E8
C24_Witness ==
    /\ last.op = "disable_job"
    /\ last.kind = "success"
    /\ last.result[1].returned
    /\ last.result[1].written
    /\ Len(ListedOf(crontab, last.task_id)) = 1
    /\ ~ListedOf(crontab, last.task_id)[1].enabled
    /\ ListedOf(crontab, last.task_id)[1].slices = E8

\* C25: remove_job returns True exactly when the task had an entry, leaves
\* no entry of the task, and a second remove_job returns False and leaves
\* the crontab as the first one left it
C25_RemoveIdempotent ==
    [][last'.op = "remove_job" /\ last'.kind = "success"
       => LET t == last'.task_id
              again == remove_job(crontab', t, TRUE)
          IN /\ last'.result[1].returned
                   = (Len(find_comment(crontab, _job_comment(t))) > 0)
             /\ find_comment(crontab', _job_comment(t)) = <<>>
             /\ crontab' = OthersOf(crontab, t)
             /\ again.raised = "none"
             /\ again.result = FALSE
             /\ again.crontab = crontab'
             /\ (last.op = "remove_job" /\ last.kind = "success" /\ last.task_id = t)
                => ~last'.result[1].returned /\ crontab' = crontab]_vars

\* the entry of a task was removed from between the entries of others
C25_Witness ==
    /\ last.op = "remove_job"
    /\ last.kind = "success"
    /\ last.result[1].returned
    /\ find_comment(crontab, _job_comment(last.task_id)) = <<>>
    /\ Len(list_jobs(crontab)) = 1
    /\ Len(crontab) = 2

\* the tools that only read
ReadOps == {"get", "list", "list_cron", "history"}

\* C26: scheduler_get_task, scheduler_list_tasks, scheduler_task_history and
\* scheduler_list_cron leave every task row, every run record and every
\* crontab entry as it was, for a known and for an unknown id, with the
\* crontab facility working or not
C26_ReadsChangeNothing ==
    [][last'.op \in ReadOps
       => /\ tasks' = tasks
          /\ runs' = runs
          /\ crontab' = crontab
          /\ next_task' = next_task
          /\ next_run' = next_run]_vars

\* the history of a task with a run and a crontab entry was read
C26_Witness ==
    /\ last.op = "history"
    /\ last.kind = "success"
    /\ last.task_id \in DOMAIN tasks
    /\ \E i \in 1..Len(runs) : runs[i].task_id = last.task_id
    /\ find_comment(crontab, _job_comment(last.task_id)) # <<>>

\* C29: in every state the tools reach when they run one at a time, the
\* states between the two calls of add, update and remove and the states a
\* crash between the two calls leaves included, every managed crontab entry
\* carries the id of a task that has a row in the ledger
C29_EntryHasRow ==
    \A i \in 1..Len(list_jobs(crontab)) :
        \E t \in DOMAIN tasks : list_jobs(crontab)[i].comment = _job_comment(t)

\* the server died inside a remove, after remove_job and before delete_task:
\* the row is there and the entry is gone
C29_Witness ==
    /\ last.op = "remove"
    /\ last.kind = "crashed"
    /\ last.cron_removed
    /\ last.task_id \in DOMAIN tasks
    /\ list_jobs(crontab) = <<>>

\* C30: however the steps of the runner interleave with scheduler_remove_task
\* and the other tools, every run record refers to a task that has a row:
\* the runs of a deleted task go with it, log_run_finish after the deletion
\* brings no record back, and log_run_start for a deleted task inserts none
C30_RunsReferToTasks ==
    \A i \in 1..Len(runs) : runs[i].task_id \in DOMAIN tasks

\* a runner started its run, the task was removed, and the runner logged
\* its success afterwards: there is no run record
C30_Witness ==
    /\ runner.pc = "exited"
    /\ runner.out = "ok"
    /\ runner.run_id > 0
    /\ runner.task_id \notin DOMAIN tasks
    /\ last.op = "remove"
    /\ last.db_removed
    /\ runs = <<>>

\* the ways the runner is started
RunOps == {"run_now", "run_task", "run_direct"}

\* C31: a runner started by cron, by run-now or by hand for a task whose
\* row has enabled = 0 inserts no run record, does not reach the backend call
\* and exits 0, whether the task's crontab entry is enabled or not; a runner
\* started for an id without a row inserts no run record and exits 1
C31_DisabledOrUnknownRunsNothing ==
    [][last'.op \in RunOps
       => LET t == last'.task_id
          IN /\ (t \in DOMAIN tasks /\ tasks[t].enabled = 0)
                => /\ runs' = runs
                   /\ next_run' = next_run
                   /\ last'.status = IF last'.op = "run_now" THEN "completed" ELSE "0"
                   /\ \A out \in AllOutcomes :
                         /\ ~run_task(Current, t, out).called
                         /\ run_task(Current, t, out).code = 0
                         /\ run_task(Current, t, out).store = Current
             /\ t \notin DOMAIN tasks
                => /\ runs' = runs
                   /\ next_run' = next_run
                   /\ last'.op = "run_now" => last'.status = "Task not found"
                   /\ last'.op # "run_now" => last'.status = "1"
                   /\ \A out \in AllOutcomes :
                         /\ ~run_task(Current, t, out).called
                         /\ run_task(Current, t, out).code # 0
                         /\ run_task(Current, t, out).store = Current]_vars

\* cron fired the enabled entry of a task whose row is disabled: the runner
\* exited 0 and there is no run record
C31_Witness ==
    /\ last.op = "run_task"
    /\ last.status = "0"
    /\ last.task_id \in DOMAIN tasks
    /\ tasks[last.task_id].enabled = 0
    /\ \E i \in 1..Len(crontab) :
          crontab[i].comment = _job_comment(last.task_id) /\ crontab[i].enabled
    /\ runs = <<>>

====
